---- MODULE Spec2Model ----
(***************************************************************************)
(* Model of bin/calculate-optimal-chunks.py: the chunk distribution tool   *)
(* that packs the spec files of the project into num_chunks bins and       *)
(* prints the files of one bin.                                            *)
(*                                                                         *)
(* Every invocation of the tool is a run (a process).  A run reads its     *)
(* argument vector, the timing file and the project tree, none of which it *)
(* changes.  Run identifiers are the domain of argv.                       *)
(*                                                                         *)
(* Weights are integers: the arithmetic of the model is exact.             *)
(***************************************************************************)
EXTENDS Integers, Sequences, FiniteSets, TLC

\* ---------------------------------------------------------------- bounds
MaxFiles == 2      \* spec files the project tree may hold (main, parallel runs)
MaxChunks == 2     \* largest num_chunks given on the command line
MaxDur == 2        \* largest duration held by the timing table
MaxItems == 4      \* items handed to bin_packing_ffd when it is checked alone
MaxWeight == 3     \* largest item weight when bin_packing_ffd is checked alone
MaxBins == 3       \* largest num_bins when bin_packing_ffd is checked alone
MaxLines == 3      \* lines of a spec file when the estimator is checked alone

\* ------------------------------------------------------ program constants
DefaultWeight == 100   \* weight of a file that is missing or cannot be read
BlockBonus == 10       \* weight of one test block

VARIABLES
    argv,            \* run -> the command line of the run (sys.argv)
    timing_file,     \* the timing file resource
    disk,            \* file identifier -> state of the file under spec/
    pc,              \* run -> position of the run in main()
    timings,         \* run -> the loaded timing table
    all_spec_files,  \* run -> the discovered spec files
    items,           \* run -> list of <<name, weight>>
    using_static,    \* run -> the files weighted by the static estimate
    sorted_items,    \* run -> bin_packing_ffd's sorted_items
    placed,          \* run -> number of sorted_items the packing loop has placed
    bins,            \* run -> bin index (from 0) -> list of <<name, weight>>
    bin_weights,     \* run -> bin index (from 0) -> accumulated weight
    stdout,          \* run -> lines on the primary output stream
    stderr,          \* run -> diagnostics on the error stream, by kind
    exit_code        \* run -> exit status, -1 while the run has not ended

vars == <<argv, timing_file, disk, pc, timings, all_spec_files, items, using_static,
          sorted_items, placed, bins, bin_weights, stdout, stderr, exit_code>>

Runs == DOMAIN argv

\* ------------------------------------------------------ file identifiers
\* Relative paths of spec files, listed in lexicographic order.
AllNames == <<"spec/a_spec.sh", "spec/b_spec.sh", "spec/c_spec.sh",
              "spec/d_spec.sh", "spec/e_spec.sh", "spec/f_spec.sh">>

Files == {AllNames[i] : i \in 1..MaxFiles}

\* Position of a path in the lexicographic order of paths (str comparison).
Rank(name) == CHOOSE i \in DOMAIN AllNames : AllNames[i] = name

\* ------------------------------------------------------- text of a file
\* A line is a sequence of characters, as readlines() returns it.
Whitespace == {" ", "\t", "\n"}

LineIt == <<"I", "t", " ", "x", "\n">>
LineDescribeIndented == <<" ", " ", "D", "e", "s", "c", "r", "i", "b", "e", " ", "x", "\n">>
LineContext == <<"C", "o", "n", "t", "e", "x", "t", " ", "x">>
LineItem == <<"I", "t", "e", "m", "\n">>
LineBareIt == <<"I", "t", " ", "\n">>
LineBlank == <<"\n">>
LineEcho == <<"e", "c", "h", "o", " ", "I", "t", " ", "x", "\n">>

Lines == {LineIt, LineDescribeIndented, LineContext, LineItem, LineBareIt,
          LineBlank, LineEcho}

\* The three prefixes of line 53.
KeywordPrefixes == {<<"I", "t", " ">>,
                    <<"D", "e", "s", "c", "r", "i", "b", "e", " ">>,
                    <<"C", "o", "n", "t", "e", "x", "t", " ">>}

\* str.strip(): drop leading and trailing whitespace.
RECURSIVE lstrip(_)
lstrip(s) == IF s # <<>> /\ Head(s) \in Whitespace THEN lstrip(Tail(s)) ELSE s

RECURSIVE rstrip(_)
rstrip(s) ==
    IF s # <<>> /\ s[Len(s)] \in Whitespace THEN rstrip(SubSeq(s, 1, Len(s) - 1)) ELSE s

strip(s) == rstrip(lstrip(s))

\* str.startswith(prefix)
startswith(s, prefix) ==
    Len(s) >= Len(prefix) /\ SubSeq(s, 1, Len(prefix)) = prefix

\* Variant: the line is not stripped before the test.
IsTestBlockNoStrip(line) == \E p \in KeywordPrefixes : startswith(line, p)

\* line 53: line.strip().startswith(('It ', 'Describe ', 'Context '))
IsTestBlock(line) == \E p \in KeywordPrefixes : startswith(strip(line), p)

\* lines 51-54: sum(1 for line in lines if ...)
RECURSIVE test_blocks(_)
test_blocks(lines) ==
    IF lines = <<>> THEN 0
    ELSE (IF IsTestBlock(Head(lines)) THEN 1 ELSE 0) + test_blocks(Tail(lines))

\* ---------------------------------------------------------- file states
Absent == [kind |-> "absent", lines |-> <<>>]
Unreadable == [kind |-> "unreadable", lines |-> <<>>]
Readable(ls) == [kind |-> "file", lines |-> ls]

\* calculate_static_weight: the weight, and whether the warning of line 59 is
\* written.  The function has no path that raises.
calculate_static_weight(spec_file) ==
    LET st == disk[spec_file] IN
    CASE st.kind = "absent" -> [weight |-> DefaultWeight, warning |-> FALSE]
      [] st.kind = "unreadable" -> [weight |-> DefaultWeight, warning |-> TRUE]
      [] OTHER ->
           [weight |-> Len(st.lines) + (test_blocks(st.lines) * BlockBonus),
            warning |-> FALSE]

\* ------------------------------------------------------------ timing file
EmptyMap == <<>>
Unset == [kind |-> "unset", map |-> EmptyMap]
Dict(m) == [kind |-> "dict", map |-> m]
NotADict == [kind |-> "number", map |-> EmptyMap]

TimingMaps == UNION {[S -> 0..MaxDur] : S \in SUBSET Files}

\* States of the timing file: missing; not JSON; JSON whose top level is an
\* array; a JSON object without the key timings, with a number under it, or
\* with a mapping under it.
TimingFile(kind, key, m) == [kind |-> kind, key |-> key, map |-> m]

MalformedTimingFiles ==
    {TimingFile("absent", "none", EmptyMap),
     TimingFile("invalid_json", "none", EmptyMap),
     TimingFile("json_array", "none", EmptyMap),
     TimingFile("json_object", "none", EmptyMap),
     TimingFile("json_object", "number", EmptyMap)}

WellFormedTimingFiles == {TimingFile("json_object", "mapping", m) : m \in TimingMaps}

TimingFiles == MalformedTimingFiles \cup WellFormedTimingFiles

\* load_timings: the value returned, whether the diagnostic of line 30 is
\* written, and whether an exception leaves the function.
load_timings(tf) ==
    CASE tf.kind \in {"absent", "invalid_json"} ->
           \* FileNotFoundError, json.JSONDecodeError: caught at line 29
           [raised |-> FALSE, diag |-> TRUE, value |-> Dict(EmptyMap)]
      [] tf.kind = "json_array" ->
           \* line 28: a list has no attribute get; AttributeError is not caught
           [raised |-> TRUE, diag |-> FALSE, value |-> Unset]
      [] OTHER ->
           \* line 28: data.get('timings', {})
           [raised |-> FALSE, diag |-> FALSE,
            value |-> CASE tf.key = "none" -> Dict(EmptyMap)
                        [] tf.key = "number" -> NotADict
                        [] OTHER -> Dict(tf.map)]

\* ------------------------------------------------------------- discovery
\* The orders in which rglob may yield the files of S.
WalkOrders(S) ==
    {w \in [1..Cardinality(S) -> S] : \A i, j \in DOMAIN w : w[i] = w[j] => i = j}

\* Files that exist under spec/ (a missing spec/ directory holds none).
rglob == WalkOrders({f \in Files : disk[f].kind # "absent"})

\* sorted() of a list of paths: a stable insertion by str comparison.
RECURSIVE InsertName(_, _)
InsertName(x, s) ==
    IF s = <<>> THEN <<x>>
    ELSE IF Rank(x) < Rank(Head(s)) THEN <<x>> \o s
    ELSE <<Head(s)>> \o InsertName(x, Tail(s))

RECURSIVE SortNames(_)
SortNames(s) ==
    IF s = <<>> THEN <<>> ELSE InsertName(s[Len(s)], SortNames(SubSeq(s, 1, Len(s) - 1)))

\* Variant: the files in the order of the walk, without line 75's sorted().
get_all_spec_files_unsorted(walk) == walk

\* get_all_spec_files: line 75 sorts what the walk of lines 70-73 collected.
get_all_spec_files(walk) == SortNames(walk)

\* ----------------------------------------------------------- weighting
\* Variant: a duration of zero counts as timing data (>= 0 for > 0).
uses_timing_nonneg(tm, spec_file) ==
    spec_file \in DOMAIN tm.map /\ tm.map[spec_file] >= 0

\* line 138: spec_file in timings and timings[spec_file] > 0
uses_timing(tm, spec_file) ==
    spec_file \in DOMAIN tm.map /\ tm.map[spec_file] > 0

\* lines 137-146, for a timing table that is a dict
build_items(tm, files) ==
    [i \in 1..Len(files) |->
        <<files[i], IF uses_timing(tm, files[i])
                    THEN tm.map[files[i]]
                    ELSE calculate_static_weight(files[i]).weight>>]

build_using_static(tm, files) ==
    SelectSeq(files, LAMBDA f : ~uses_timing(tm, f))

\* the warnings of line 59 written while the loop runs
build_warnings(tm, files) ==
    LET failed == SelectSeq(files,
                    LAMBDA f : ~uses_timing(tm, f) /\ calculate_static_weight(f).warning)
    IN  [i \in 1..Len(failed) |-> "weight_warning"]

\* ------------------------------------------------------- bin_packing_ffd
Reverse(s) == [i \in 1..Len(s) |-> s[Len(s) + 1 - i]]

\* A stable ascending sort by weight (x[2]): x goes behind every element whose
\* weight is not larger.
RECURSIVE InsertItem(_, _)
InsertItem(x, s) ==
    IF s = <<>> THEN <<x>>
    ELSE IF x[2] < Head(s)[2] THEN <<x>> \o s
    ELSE <<Head(s)>> \o InsertItem(x, Tail(s))

RECURSIVE SortItemsAscending(_)
SortItemsAscending(s) ==
    IF s = <<>> THEN <<>>
    ELSE InsertItem(s[Len(s)], SortItemsAscending(SubSeq(s, 1, Len(s) - 1)))

\* Variant: sort ascending, then reverse (sorted(...)[::-1]); equal weights
\* come out in reverse order.
sorted_reverse_unstable(its) == Reverse(SortItemsAscending(its))

\* line 90: sorted(items, key=lambda x: x[1], reverse=True).  list.sort with
\* reverse=True reverses the list, sorts it ascending and stable, and reverses
\* the result.
sorted_reverse(its) == Reverse(SortItemsAscending(Reverse(its)))

\* min(bin_weights): a scan from index 0 that keeps the smaller value
RECURSIVE MinFrom(_, _, _)
MinFrom(bw, i, best) ==
    IF i \notin DOMAIN bw THEN best
    ELSE MinFrom(bw, i + 1, IF bw[i] < best THEN bw[i] ELSE best)

min(bw) == MinFrom(bw, 1, bw[0])

\* list.index(v): the first index holding v
RECURSIVE IndexFrom(_, _, _)
IndexFrom(bw, v, i) == IF bw[i] = v THEN i ELSE IndexFrom(bw, v, i + 1)

index(bw, v) == IndexFrom(bw, v, 0)

\* Variant: always the first bin.
min_idx_first_bin(bw) == 0

\* line 99: bin_weights.index(min(bin_weights))
min_idx(bw) == index(bw, min(bw))

\* Variant: the bins are one shared list ([[]] * num_bins), so an append
\* shows in every bin.
append_aliased(bs, idx, item) == [i \in DOMAIN bs |-> Append(bs[i], item)]

\* line 100: bins[min_idx].append((item_name, item_weight))
append(bs, idx, item) == [bs EXCEPT ![idx] = Append(@, item)]

\* Variant: = for +=.
assign_weight(bw, idx, w) == [bw EXCEPT ![idx] = w]

\* line 101: bin_weights[min_idx] += item_weight
add_weight(bw, idx, w) == [bw EXCEPT ![idx] = @ + w]

\* ------------------------------------------------------------- output
\* list[i]: an index below zero counts from the end, an index outside the
\* list raises IndexError.
in_range(l, i) == -Cardinality(DOMAIN l) <= i /\ i < Cardinality(DOMAIN l)

getitem(l, i) == IF i < 0 THEN l[i + Cardinality(DOMAIN l)] ELSE l[i]

\* ' '.join(names): the characters of the line, a name being one token
RECURSIVE join(_, _)
join(sep, names) ==
    IF names = <<>> THEN <<>>
    ELSE IF Len(names) = 1 THEN <<names[1]>>
    ELSE <<names[1], sep>> \o join(sep, Tail(names))

Names(its) == [i \in 1..Len(its) |-> its[i][1]]

\* The error stream lines of 158-161: a header and one line for each bin.
distribution(bs) == <<"distribution">> \o [i \in 1..Cardinality(DOMAIN bs) |-> "chunk"]

\* ------------------------------------------------------- command line
IntArg(n) == [isint |-> TRUE, val |-> n]
NotInt == [isint |-> FALSE, val |-> 0]

\* lines 113-114: int(sys.argv[2]), int(sys.argv[3])
num_chunks(r) == argv[r].num_chunks.val
chunk_index(r) == argv[r].chunk_index.val

\* Variant: > for >=.
chunk_index_rejected_off_by_one(r) == chunk_index(r) < 0 \/ chunk_index(r) > num_chunks(r)

\* line 116
chunk_index_rejected(r) == chunk_index(r) < 0 \/ chunk_index(r) >= num_chunks(r)

\* ------------------------------------------------------------- actions
\* The run ends at loc with exit status 1 after writing msg to the error stream.
Abort(r, loc, msg) ==
    /\ pc' = [pc EXCEPT ![r] = loc]
    /\ stderr' = [stderr EXCEPT ![r] = Append(@, msg)]
    /\ exit_code' = [exit_code EXCEPT ![r] = 1]

\* lines 107-118: the argument count, the two conversions, the range test
CheckArgs(r) ==
    /\ pc[r] = "start"
    /\ IF argv[r].argc # 4
         THEN Abort(r, "exit", "usage")
       ELSE IF ~argv[r].num_chunks.isint \/ ~argv[r].chunk_index.isint
         THEN Abort(r, "crashed", "traceback")       \* ValueError from int()
       ELSE IF chunk_index_rejected(r)
         THEN Abort(r, "exit", "chunk_index")
       ELSE /\ pc' = [pc EXCEPT ![r] = "load"]
            /\ UNCHANGED <<stderr, exit_code>>
    /\ UNCHANGED <<argv, timing_file, disk, timings, all_spec_files, items, using_static,
                   sorted_items, placed, bins, bin_weights, stdout>>

\* line 124
LoadTimings(r) ==
    /\ pc[r] = "load"
    /\ LET res == load_timings(timing_file) IN
       IF res.raised
         THEN /\ Abort(r, "crashed", "traceback")
              /\ UNCHANGED timings
         ELSE /\ timings' = [timings EXCEPT ![r] = res.value]
              /\ stderr' = [stderr EXCEPT ![r] =
                               IF res.diag THEN Append(@, "load_error") ELSE @]
              /\ pc' = [pc EXCEPT ![r] = "discover"]
              /\ UNCHANGED exit_code
    /\ UNCHANGED <<argv, timing_file, disk, all_spec_files, items, using_static,
                   sorted_items, placed, bins, bin_weights, stdout>>

\* lines 127-131
Discover(r) ==
    /\ pc[r] = "discover"
    /\ \E walk \in rglob :
         LET found == get_all_spec_files(walk) IN
         /\ all_spec_files' = [all_spec_files EXCEPT ![r] = found]
         /\ IF found = <<>>
              THEN Abort(r, "exit", "no_spec_files")
              ELSE /\ pc' = [pc EXCEPT ![r] = "weigh"]
                   /\ UNCHANGED <<stderr, exit_code>>
    /\ UNCHANGED <<argv, timing_file, disk, timings, items, using_static,
                   sorted_items, placed, bins, bin_weights, stdout>>

\* lines 134-149
BuildItems(r) ==
    /\ pc[r] = "weigh"
    /\ IF timings[r].kind # "dict"
         THEN \* line 138: "in" applied to a number raises TypeError
              /\ Abort(r, "crashed", "traceback")
              /\ UNCHANGED <<items, using_static>>
         ELSE LET tm == timings[r]
                  files == all_spec_files[r]
                  static == build_using_static(tm, files)
              IN  /\ items' = [items EXCEPT ![r] = build_items(tm, files)]
                  /\ using_static' = [using_static EXCEPT ![r] = static]
                  /\ stderr' = [stderr EXCEPT ![r] =
                                   @ \o build_warnings(tm, files)
                                     \o (IF static # <<>> THEN <<"static_notice">>
                                                          ELSE <<>>)]
                  /\ pc' = [pc EXCEPT ![r] = "pack"]
                  /\ UNCHANGED exit_code
    /\ UNCHANGED <<argv, timing_file, disk, timings, all_spec_files,
                   sorted_items, placed, bins, bin_weights, stdout>>

\* lines 90-94: the call of line 152 up to the loop
PackInit(r) ==
    /\ pc[r] = "pack"
    /\ sorted_items' = [sorted_items EXCEPT ![r] = sorted_reverse(items[r])]
    /\ bins' = [bins EXCEPT ![r] = [i \in 0..(num_chunks(r) - 1) |-> <<>>]]
    /\ bin_weights' = [bin_weights EXCEPT ![r] = [i \in 0..(num_chunks(r) - 1) |-> 0]]
    /\ placed' = [placed EXCEPT ![r] = 0]
    /\ pc' = [pc EXCEPT ![r] = "place"]
    /\ UNCHANGED <<argv, timing_file, disk, timings, all_spec_files, items, using_static,
                   stdout, stderr, exit_code>>

\* lines 97-101: one iteration of the loop
Place(r) ==
    /\ pc[r] = "place"
    /\ placed[r] < Len(sorted_items[r])
    /\ LET item == sorted_items[r][placed[r] + 1]
           idx == min_idx(bin_weights[r])
       IN  /\ bins' = [bins EXCEPT ![r] = append(@, idx, item)]
           /\ bin_weights' = [bin_weights EXCEPT ![r] = add_weight(@, idx, item[2])]
    /\ placed' = [placed EXCEPT ![r] = @ + 1]
    /\ UNCHANGED <<argv, timing_file, disk, pc, timings, all_spec_files, items,
                   using_static, sorted_items, stdout, stderr, exit_code>>

\* lines 103, 155-170: the packing returns, the summary goes to the error
\* stream and the selected bin to the primary output stream
Emit(r) ==
    /\ pc[r] = "place"
    /\ placed[r] = Len(sorted_items[r])
    /\ IF ~in_range(bins[r], chunk_index(r))
         THEN \* line 164: IndexError, after the summary was written
              /\ stderr' = [stderr EXCEPT ![r] =
                               (@ \o distribution(bins[r])) \o <<"traceback">>]
              /\ exit_code' = [exit_code EXCEPT ![r] = 1]
              /\ pc' = [pc EXCEPT ![r] = "crashed"]
              /\ UNCHANGED stdout
         ELSE /\ stderr' = [stderr EXCEPT ![r] = @ \o distribution(bins[r])]
              /\ stdout' = [stdout EXCEPT ![r] =
                               Append(@, join(" ", Names(getitem(bins[r], chunk_index(r)))))]
              /\ exit_code' = [exit_code EXCEPT ![r] = 0]
              /\ pc' = [pc EXCEPT ![r] = "done"]
    /\ UNCHANGED <<argv, timing_file, disk, timings, all_spec_files, items, using_static,
                   sorted_items, placed, bins, bin_weights>>

\* calculate_static_weight called on one file (lines 34-60)
Estimate(r) ==
    /\ pc[r] = "estimate"
    /\ LET res == calculate_static_weight(AllNames[1]) IN
       /\ items' = [items EXCEPT ![r] = <<<<AllNames[1], res.weight>>>>]
       /\ stderr' = [stderr EXCEPT ![r] =
                        IF res.warning THEN Append(@, "weight_warning") ELSE @]
    /\ pc' = [pc EXCEPT ![r] = "estimated"]
    /\ UNCHANGED <<argv, timing_file, disk, timings, all_spec_files, using_static,
                   sorted_items, placed, bins, bin_weights, stdout, exit_code>>

\* ------------------------------------------------------ one run of main()
\* What every run starts with: nothing loaded, nothing written.
Fresh(rs) ==
    /\ timings = [r \in rs |-> Unset]
    /\ all_spec_files = [r \in rs |-> <<>>]
    /\ using_static = [r \in rs |-> <<>>]
    /\ sorted_items = [r \in rs |-> <<>>]
    /\ placed = [r \in rs |-> 0]
    /\ bins = [r \in rs |-> <<>>]
    /\ bin_weights = [r \in rs |-> <<>>]
    /\ stdout = [r \in rs |-> <<>>]
    /\ stderr = [r \in rs |-> <<>>]
    /\ exit_code = [r \in rs |-> -1]

CommandLine(n, c) == [argc |-> 4, num_chunks |-> n, chunk_index |-> c]

ArgValues == {IntArg(n) : n \in -1..MaxChunks} \cup {NotInt}

CommandLines ==
    {CommandLine(n, c) : n \in ArgValues, c \in ArgValues}
    \cup {[argc |-> k, num_chunks |-> NotInt, chunk_index |-> NotInt] : k \in {3, 5}}

\* A spec file as main() may find it: missing, unreadable, empty, one test block.
SpecFileStates == {Absent, Unreadable, Readable(<<>>), Readable(<<LineIt>>)}

Init ==
    /\ argv \in [{0} -> CommandLines]
    /\ timing_file \in TimingFiles
    /\ disk \in [Files -> SpecFileStates]
    /\ pc = [r \in {0} |-> "start"]
    /\ items = [r \in {0} |-> <<>>]
    /\ Fresh({0})

Next ==
    \/ \E r \in Runs : CheckArgs(r)
    \/ \E r \in Runs : LoadTimings(r)
    \/ \E r \in Runs : Discover(r)
    \/ \E r \in Runs : BuildItems(r)
    \/ \E r \in Runs : PackInit(r)
    \/ \E r \in Runs : Place(r)
    \/ \E r \in Runs : Emit(r)

Spec == Init /\ [][Next]_vars

\* ----------------------------------------- num_chunks runs, one for each chunk
\* The runs of one CI job: the same timing file and tree, chunk_index r in run r.
InitRuns ==
    /\ \E n \in 1..MaxChunks :
         argv = [r \in 0..(n - 1) |-> CommandLine(IntArg(n), IntArg(r))]
    /\ timing_file \in {TimingFile("absent", "none", EmptyMap)} \cup WellFormedTimingFiles
    /\ disk \in [Files -> {Absent, Readable(<<LineIt>>)}]
    /\ pc = [r \in Runs |-> "start"]
    /\ items = [r \in Runs |-> <<>>]
    /\ Fresh(Runs)

SpecRuns == InitRuns /\ [][Next]_vars

\* ------------------------------------------------- bin_packing_ffd alone
ExampleItems == <<<<"spec/a_spec.sh", 10>>, <<"spec/b_spec.sh", 1>>,
                  <<"spec/c_spec.sh", 100>>>>

\* Lists of items with distinct names in discovery order, any weights.
ItemLists ==
    UNION {{[i \in 1..n |-> <<AllNames[i], w[i]>>] : w \in [1..n -> 0..MaxWeight]} :
           n \in 0..MaxItems}

InitPack ==
    /\ argv \in [{0} -> {CommandLine(IntArg(n), IntArg(0)) : n \in 1..MaxBins}]
    /\ timing_file = TimingFile("absent", "none", EmptyMap)
    /\ disk = [f \in Files |-> Absent]
    /\ pc = [r \in {0} |-> "pack"]
    /\ items \in [{0} -> ItemLists \cup {ExampleItems}]
    /\ Fresh({0})

NextPack ==
    \/ \E r \in Runs : PackInit(r)
    \/ \E r \in Runs : Place(r)

SpecPack == InitPack /\ [][NextPack]_vars

\* --------------------------------------------- calculate_static_weight alone
\* A file of 50 lines, two of which open a test block.
FiftyLines == [i \in 1..50 |-> IF i \in {1, 2} THEN LineIt ELSE LineEcho]

EstimatorFileStates ==
    {Absent, Unreadable, Readable(FiftyLines)}
    \cup {Readable(ls) : ls \in UNION {[1..k -> Lines] : k \in 0..MaxLines}}

InitWeight ==
    /\ argv = [r \in {0} |-> CommandLine(IntArg(1), IntArg(0))]
    /\ timing_file = TimingFile("absent", "none", EmptyMap)
    /\ disk \in {[f \in Files |-> IF f = AllNames[1] THEN st ELSE Absent] :
                 st \in EstimatorFileStates}
    /\ pc = [r \in {0} |-> "estimate"]
    /\ items = [r \in {0} |-> <<>>]
    /\ Fresh({0})

NextWeight == \E r \in Runs : Estimate(r)

SpecWeight == InitWeight /\ [][NextWeight]_vars

\* =================================================================== claims
Range(f) == {f[x] : x \in DOMAIN f}

Ended(r) == pc[r] \in {"exit", "crashed", "done"}

\* The packing of run r has returned.
Packed(r) == pc[r] \in {"place", "done"} /\ placed[r] = Len(sorted_items[r])

\* The places <<bin, position>> of the bins bs.
BinSlots(bs) == UNION {{<<b, p>> : p \in DOMAIN bs[b]} : b \in DOMAIN bs}

\* How many places of bs hold the identifier name.
Occurrences(bs, name) ==
    Cardinality({s \in BinSlots(bs) : bs[s[1]][s[2]][1] = name})

RECURSIVE SumWeights(_)
SumWeights(its) == IF its = <<>> THEN 0 ELSE Head(its)[2] + SumWeights(Tail(its))

RECURSIVE SumOver(_, _)
SumOver(f, S) ==
    IF S = {} THEN 0 ELSE LET x == CHOOSE x \in S : TRUE IN f[x] + SumOver(f, S \ {x})

\* C1: bin_packing_ffd keeps exactly num_chunks bins; after every placement
\* step each item placed so far is in exactly one bin exactly once and no
\* other identifier is in a bin; when it returns, every input item is in
\* exactly one bin exactly once.
C1_Partition ==
    \A r \in Runs :
        pc[r] = "place" =>
            /\ DOMAIN bins[r] = 0..(num_chunks(r) - 1)
            /\ Cardinality(DOMAIN bins[r]) = num_chunks(r)
            /\ \A s \in BinSlots(bins[r]) : bins[r][s[1]][s[2]] \in Range(items[r])
            /\ \A j \in DOMAIN sorted_items[r] :
                 Occurrences(bins[r], sorted_items[r][j][1])
                     = (IF j <= placed[r] THEN 1 ELSE 0)
            /\ Packed(r) =>
                 \A i \in DOMAIN items[r] : Occurrences(bins[r], items[r][i][1]) = 1

C1_Witness ==
    \E r \in Runs :
        /\ Packed(r)
        /\ Len(items[r]) = MaxItems
        /\ num_chunks(r) = 2
        /\ Len(bins[r][0]) >= 2 /\ Len(bins[r][1]) >= 2

\* C2: runs on the same inputs compute the same bins whatever their
\* chunk_index and however they interleave, and the lines that the runs with
\* chunk_index 0..N-1 print are pairwise disjoint and together hold exactly
\* the discovered spec files.
Printed(r) == {t \in Range(stdout[r][1]) : t # " "}

Discovered == {f \in Files : disk[f].kind # "absent"}

C2_Deterministic ==
    /\ \A r1, r2 \in Runs :
         Packed(r1) /\ Packed(r2) =>
             bins[r1] = bins[r2] /\ bin_weights[r1] = bin_weights[r2]
    /\ (\A r \in Runs : pc[r] = "done") =>
         /\ \A r1, r2 \in Runs : r1 # r2 => Printed(r1) \cap Printed(r2) = {}
         /\ UNION {Printed(r) : r \in Runs} = Discovered

C2_Witness ==
    /\ Cardinality(Runs) = 2
    /\ \A r \in Runs : pc[r] = "done"
    /\ Cardinality(Discovered) = 2
    /\ items[0][1][2] = items[0][2][2]
    /\ \A r \in Runs : Cardinality(Printed(r)) = 1

\* C3: the bins bin_packing_ffd returns are those of the reference procedure:
\* items by weight descending, equal weights in their original order, each
\* appended to the lowest-indexed bin of minimal accumulated weight; the
\* example items with two bins give bin0 = [c] and bin1 = [a, b].
RECURSIVE RefOrder(_)
RefOrder(its) ==
    IF its = <<>> THEN <<>>
    ELSE LET i == CHOOSE i \in DOMAIN its :
                    /\ \A j \in DOMAIN its : its[j][2] <= its[i][2]
                    /\ \A j \in 1..(i - 1) : its[j][2] < its[i][2]
         IN  <<its[i]>> \o RefOrder(SubSeq(its, 1, i - 1) \o SubSeq(its, i + 1, Len(its)))

RECURSIVE RefPlace(_, _, _)
RefPlace(bs, bw, order) ==
    IF order = <<>> THEN [bins |-> bs, bin_weights |-> bw]
    ELSE LET b == CHOOSE b \in DOMAIN bw :
                    \A c \in DOMAIN bw : bw[b] < bw[c] \/ (bw[b] = bw[c] /\ b <= c)
         IN  RefPlace([bs EXCEPT ![b] = bs[b] \o <<Head(order)>>],
                      [bw EXCEPT ![b] = bw[b] + Head(order)[2]],
                      Tail(order))

Reference(its, n) ==
    RefPlace([b \in 0..(n - 1) |-> <<>>], [b \in 0..(n - 1) |-> 0], RefOrder(its))

C3_Reference ==
    \A r \in Runs :
        Packed(r) =>
            /\ bins[r] = Reference(items[r], num_chunks(r)).bins
            /\ bin_weights[r] = Reference(items[r], num_chunks(r)).bin_weights
            /\ (items[r] = ExampleItems /\ num_chunks(r) = 2) =>
                 /\ Names(bins[r][0]) = <<"spec/c_spec.sh">>
                 /\ Names(bins[r][1]) = <<"spec/a_spec.sh", "spec/b_spec.sh">>

C3_Witness ==
    \E r \in Runs :
        /\ Packed(r)
        /\ num_chunks(r) = 2
        /\ Len(items[r]) = 3
        /\ items[r][1][2] < items[r][2][2]
        /\ items[r][2][2] = items[r][3][2]
        /\ Names(bins[r][0]) = <<AllNames[2], AllNames[1]>>
        /\ Names(bins[r][1]) = <<AllNames[3]>>

\* C4: after every placement step bin_weights[i] is the sum of the weights of
\* the items in bins[i] and the bin weights add up to the weight of the items
\* placed so far; when the packing returns they add up to the weight of all
\* the items.
C4_Weights ==
    \A r \in Runs :
        pc[r] = "place" =>
            /\ \A b \in DOMAIN bins[r] : bin_weights[r][b] = SumWeights(bins[r][b])
            /\ SumOver(bin_weights[r], DOMAIN bin_weights[r])
                   = SumWeights(SubSeq(sorted_items[r], 1, placed[r]))
            /\ Packed(r) =>
                 SumOver(bin_weights[r], DOMAIN bin_weights[r]) = SumWeights(items[r])

C4_Witness ==
    \E r \in Runs :
        /\ Packed(r)
        /\ num_chunks(r) = 2
        /\ Len(bins[r][1]) = 2
        /\ bins[r][1][1][2] > 0 /\ bins[r][1][2][2] > 0
        /\ bin_weights[r][0] > 0

\* C10: after every placement step no non-empty bin exceeds another bin by
\* more than the weight of the item placed into it last, so the heaviest and
\* the lightest bin differ by at most the largest item weight; with positive
\* weights and at least num_chunks items no bin stays empty.
C10_Balance ==
    \A r \in Runs :
        pc[r] = "place" =>
            /\ \A i, j \in DOMAIN bins[r] :
                 bins[r][i] # <<>> =>
                     bin_weights[r][i] - bin_weights[r][j]
                         <= bins[r][i][Len(bins[r][i])][2]
            /\ \A i, j \in DOMAIN bins[r] :
                 \/ bin_weights[r][i] - bin_weights[r][j] <= 0
                 \/ \E k \in DOMAIN items[r] :
                      bin_weights[r][i] - bin_weights[r][j] <= items[r][k][2]
            /\ ( /\ Packed(r)
                 /\ \A k \in DOMAIN items[r] : items[r][k][2] > 0
                 /\ Len(items[r]) >= num_chunks(r) )
               => \A i \in DOMAIN bins[r] : bins[r][i] # <<>>

C10_Witness ==
    \E r \in Runs :
        /\ Packed(r)
        /\ num_chunks(r) = 3
        /\ Len(items[r]) = MaxItems
        /\ \A k \in DOMAIN items[r] : items[r][k][2] > 0
        /\ bin_weights[r][0] > bin_weights[r][2]
        /\ bin_weights[r][0] - bin_weights[r][2] = bins[r][0][Len(bins[r][0])][2]

\* The command line of run r holds three arguments, both numbers are integers
\* and chunk_index is in [0, num_chunks).
IntegerArgs(r) ==
    argv[r].argc = 4 /\ argv[r].num_chunks.isint /\ argv[r].chunk_index.isint

ValidArgs(r) ==
    IntegerArgs(r) /\ 0 <= chunk_index(r) /\ chunk_index(r) < num_chunks(r)

\* C5: a run whose integer chunk_index is outside [0, num_chunks) ends with a
\* non-zero exit status and nothing on the primary output stream before the
\* timing file is loaded, the tree is searched or anything is packed; so the
\* packing is reached only with num_chunks >= 1 and 0 <= chunk_index < num_chunks.
C5_RangeRejected ==
    \A r \in Runs :
        /\ (IntegerArgs(r) /\ ~(0 <= chunk_index(r) /\ chunk_index(r) < num_chunks(r))) =>
             /\ pc[r] \in {"start", "exit"}
             /\ pc[r] = "exit" => exit_code[r] = 1 /\ stderr[r] = <<"chunk_index">>
             /\ stdout[r] = <<>>
             /\ timings[r] = Unset
             /\ all_spec_files[r] = <<>> /\ items[r] = <<>>
             /\ bins[r] = <<>> /\ bin_weights[r] = <<>>
        /\ pc[r] \in {"load", "discover", "weigh", "pack", "place", "done"} =>
             /\ num_chunks(r) >= 1
             /\ 0 <= chunk_index(r) /\ chunk_index(r) < num_chunks(r)

C5_Witness ==
    \E r \in Runs :
        /\ IntegerArgs(r)
        /\ num_chunks(r) = MaxChunks /\ chunk_index(r) = MaxChunks
        /\ Discovered # {}
        /\ timing_file \in WellFormedTimingFiles
        /\ pc[r] = "exit" /\ exit_code[r] = 1

\* C6: a run ends either as a usage error (argument count other than three,
\* chunk_index out of range, no spec file discovered) with a non-zero exit
\* status and nothing on the primary output stream, or, in every other case,
\* with exit status zero and exactly one line on the primary output stream:
\* the identifiers of the selected bin in placement order, separated by single
\* spaces (an empty line for an empty bin).  The notices are on the error
\* stream only.
UsageError(r) == ~ValidArgs(r) \/ Discovered = {}

Notices == {"static_notice", "distribution", "chunk", "load_error", "weight_warning",
            "usage", "chunk_index", "no_spec_files", "traceback"}

C6_TwoOutcomes ==
    \A r \in Runs :
        /\ \A i \in DOMAIN stdout[r] : Range(stdout[r][i]) \cap Notices = {}
        /\ Ended(r) =>
             IF UsageError(r)
               THEN exit_code[r] # 0 /\ stdout[r] = <<>>
               ELSE /\ exit_code[r] = 0
                    /\ Len(stdout[r]) = 1
                    /\ stdout[r][1] = join(" ", Names(bins[r][chunk_index(r)]))

\* C7: the weight of a discovered file is its duration in the timing table
\* when the file is a key of the table, whatever non-negative duration it
\* holds, and the static estimate only when the file is no key of the table;
\* the files reported as statically weighted are those that are no key.
ItemsBuilt(r) == pc[r] \in {"pack", "place", "done"}

StaticEstimate(f) ==
    IF disk[f].kind = "file"
      THEN Len(disk[f].lines)
             + BlockBonus * Cardinality({i \in DOMAIN disk[f].lines : IsTestBlock(disk[f].lines[i])})
      ELSE DefaultWeight

C7_TableWeight ==
    \A r \in Runs :
        ItemsBuilt(r) =>
            LET table == timings[r].map IN
            /\ Len(items[r]) = Len(all_spec_files[r])
            /\ \A i \in DOMAIN items[r] :
                 LET f == all_spec_files[r][i] IN
                 /\ items[r][i][1] = f
                 /\ f \in DOMAIN table => items[r][i][2] = table[f]
                 /\ f \notin DOMAIN table => items[r][i][2] = StaticEstimate(f)
            /\ Range(using_static[r]) = {f \in Discovered : f \notin DOMAIN table}

\* C7 as amended: the weight is the duration in the timing table when the
\* file is a key of the table with a duration above zero, and the static
\* estimate when the file is no key or its duration is zero; the files
\* reported as statically weighted are those that are no key or hold zero.
C7_PositiveTableWeight ==
    \A r \in Runs :
        ItemsBuilt(r) =>
            LET table == timings[r].map
                timed == {f \in DOMAIN table : table[f] >= 1}
            IN
            /\ Len(items[r]) = Len(all_spec_files[r])
            /\ \A i \in DOMAIN items[r] :
                 LET f == all_spec_files[r][i] IN
                 /\ items[r][i][1] = f
                 /\ f \in timed => items[r][i][2] = table[f]
                 /\ f \notin timed => items[r][i][2] = StaticEstimate(f)
            /\ Range(using_static[r]) = Discovered \ timed

C7_Witness ==
    \E r \in Runs :
        /\ pc[r] = "pack"
        /\ Len(items[r]) = 2
        /\ AllNames[1] \in DOMAIN timings[r].map /\ timings[r].map[AllNames[1]] = 0
        /\ items[r][1] = <<AllNames[1], 11>>
        /\ AllNames[2] \in DOMAIN timings[r].map
        /\ items[r][2] = <<AllNames[2], MaxDur>>
        /\ using_static[r] = <<AllNames[1]>>

\* C8: whenever the timing file is missing or malformed, load_timings returns
\* an empty mapping and writes a diagnostic, and the run goes on: with valid
\* arguments and a spec file discovered it weights every item statically and
\* ends in success with one line on the primary output stream.
C8_TimingTolerated ==
    \A r \in Runs :
        (timing_file \in MalformedTimingFiles /\ ValidArgs(r)) =>
            /\ pc[r] # "crashed"
            /\ pc[r] \notin {"start", "load"} =>
                 /\ timings[r] = Dict(EmptyMap)
                 /\ \E i \in DOMAIN stderr[r] : stderr[r][i] = "load_error"
            /\ ItemsBuilt(r) => Range(using_static[r]) = Discovered
            /\ (Ended(r) /\ Discovered # {}) =>
                 pc[r] = "done" /\ exit_code[r] = 0 /\ Len(stdout[r]) = 1

\* C9: calculate_static_weight returns line_count + 10 * test_block_count for
\* a readable file, a test block being a line whose trimmed content begins
\* with one of the keywords It, Describe, Context (70 for 50 lines with two
\* test blocks, 0 for an empty file), and 100 for a file that is missing or
\* cannot be read; it never raises.
Keywords == {<<"I", "t">>,
             <<"D", "e", "s", "c", "r", "i", "b", "e">>,
             <<"C", "o", "n", "t", "e", "x", "t">>}

\* The line without the whitespace around it.
Trimmed(line) ==
    LET inked == {i \in DOMAIN line : line[i] \notin Whitespace} IN
    IF inked = {} THEN <<>>
    ELSE SubSeq(line, CHOOSE i \in inked : \A j \in inked : i <= j,
                      CHOOSE i \in inked : \A j \in inked : j <= i)

BeginsWith(s, p) == Len(p) <= Len(s) /\ \A i \in DOMAIN p : s[i] = p[i]

Estimated(r) == pc[r] = "estimated"

TheFile == disk[AllNames[1]]

C9_KeywordWeight ==
    \A r \in Runs :
        Estimated(r) =>
            /\ Len(items[r]) = 1
            /\ TheFile.kind = "file" =>
                 items[r][1][2] =
                     Len(TheFile.lines)
                       + 10 * Cardinality({i \in DOMAIN TheFile.lines :
                                \E k \in Keywords : BeginsWith(Trimmed(TheFile.lines[i]), k)})
            /\ TheFile.kind # "file" => items[r][1][2] = 100

\* C9 as amended: a test block is a line whose trimmed content begins with a
\* keyword followed by a space ('It ', 'Describe ', 'Context '); the rest is
\* as claimed.
C9_PrefixWeight ==
    \A r \in Runs :
        Estimated(r) =>
            /\ Len(items[r]) = 1
            /\ exit_code[r] = -1
            /\ TheFile.kind = "file" =>
                 items[r][1][2] =
                     Len(TheFile.lines)
                       + 10 * Cardinality({i \in DOMAIN TheFile.lines :
                                \E k \in Keywords :
                                    BeginsWith(Trimmed(TheFile.lines[i]), k \o <<" ">>)})
            /\ TheFile.kind # "file" => items[r][1][2] = 100
            /\ TheFile.lines = FiftyLines => items[r][1][2] = 70
            /\ (TheFile.kind = "file" /\ TheFile.lines = <<>>) => items[r][1][2] = 0
            /\ TheFile.kind = "unreadable" <=> stderr[r] = <<"weight_warning">>

C9_Witness ==
    \E r \in Runs :
        /\ Estimated(r)
        /\ TheFile = Readable(<<LineDescribeIndented, LineItem>>)
        /\ items[r][1][2] = 12
====
